---- MODULE Spec2Model ----
(***************************************************************************)
(* Browser Use Live (MCP): the server of src/index.ts (the tools           *)
(* run_browser_task and get_task_result, the route GET /api/task/:taskId)  *)
(* and the polling effect of the widget of                                 *)
(* src/resources/browser-live-view.tsx.                                    *)
(*                                                                         *)
(* JavaScript values are written as their JSON text: "true", "false",      *)
(* "null", a number as its digits, and "undefined" for an absent key.      *)
(* A message is a sequence of string tokens (a template string is the      *)
(* concatenation of its parts).                                            *)
(***************************************************************************)
EXTENDS Integers, Sequences, FiniteSets, Bags, TLC

VARIABLES
    API_KEY,     \* index.ts:16, fixed when the process starts
    last,        \* the last completed server invocation: input, provider response, result
    isPending,   \* browser-live-view.tsx:35, useWidget().isPending
    props,       \* browser-live-view.tsx:35, useWidget().props
    result,      \* browser-live-view.tsx:37, the widget's result state
    stopped,     \* browser-live-view.tsx:42, the effect's closure variable
    interval,    \* browser-live-view.tsx:65, whether the interval timer is set
    polls,       \* poll() calls whose fetch has not settled yet
    started,     \* number of poll() calls made so far
    observed,    \* what the settled poll iterations have seen so far
    kept,        \* an earlier status call for a completed task, remembered
    provider     \* the is_success the provider holds for the widget's task

vars ==
    <<API_KEY, last, isPending, props, result, stopped, interval, polls, started,
      observed, kept, provider>>

serverVars == <<API_KEY, last, kept>>
widgetVars == <<isPending, props, result, stopped, interval, polls, started, observed>>

\* ---------------------------------------------------------------- values

Undefined == "undefined"
Null == "null"
JTrue == "true"
JFalse == "false"

Nullish(v) == v \in {Null, Undefined}

\* JavaScript's a ?? b
Coalesce(a, b) == IF Nullish(a) THEN b ELSE a

\* JavaScript's truthiness of a string-or-absent value
Truthy(v) == v \notin {Undefined, Null, "", JFalse, "0"}

Range(s) == {s[i] : i \in DOMAIN s}

\* ---------------------------------------------------------------- inputs

TaskIds == {"t1", "t2"}
Tasks == {"Go to example.com", "Search for AI news"}
Models == {"browser-use-2.0", "gpt-4.1"}
MaxStepsInputs == {Undefined, "5"}
Keys == {"", "key-1"}
Statuses == {200, 500}

AbsentOr(S) == {Undefined} \cup S

\* What JSON.parse of the content text can yield for a monitor_task call
StatusObjects ==
    [is_success : {JTrue, JFalse, Null, Undefined},
     task_output : {"Top post: X", Null, Undefined},
     total_steps : {"7", Null, Undefined}]

\* What JSON.parse of the content text can yield for a browser_task call
StartObjects ==
    [task_id : AbsentOr({"t1"}),
     session_id : AbsentOr({"s1"}),
     live_url : AbsentOr({"https://live/t1"})]

\* result.content[0].text of the JSON-RPC envelope
Texts(Objects) ==
    {[kind |-> "absent"], [kind |-> "empty"], [kind |-> "invalid"], [kind |-> "null"]}
        \cup {[kind |-> "object", obj |-> o] : o \in Objects}

\* The body of the provider's HTTP response
Bodies(Objects) ==
    {[kind |-> "malformed"]}
        \cup {[kind |-> "json", error |-> e, text |-> t] :
                 e \in AbsentOr({"provider error"}), t \in Texts(Objects)}

\* What fetch() of the provider can do
Responses(Objects) ==
    {[kind |-> "network"]}
        \cup {[kind |-> "http", status |-> s, body |-> b] :
                 s \in Statuses, b \in Bodies(Objects)}

NoResponse == [kind |-> "none"]

\* ---------------------------------------------------------------- exceptions

Return(v) == [threw |-> FALSE, value |-> v]
Throw(name, m) == [threw |-> TRUE, name |-> name, message |-> m]

\* The value JSON.parse gives for the text "null"
JsonNull == [jsonNull |-> TRUE]
IsJsonNull(v) == "jsonNull" \in DOMAIN v

\* The value JSON.parse gives for the text "{}": an object with none of the keys read
EmptyObject == [constructor |-> "Object"]

\* v.f for an object v: undefined when the key is absent
Get(v, f) == IF f \in DOMAIN v THEN v[f] ELSE Undefined

\* JavaScript's JSON.parse of a content text
JSONparse(text) ==
    CASE text.kind = "object" -> Return(text.obj)
      [] text.kind = "null" -> Return(JsonNull)
      [] OTHER -> Throw("SyntaxError", <<"Unexpected token in JSON">>)

\* res.json()
ResJson(res) ==
    IF res.body.kind = "malformed"
    THEN Throw("SyntaxError", <<"Unexpected token in JSON">>)
    ELSE Return(res.body)

\* res.ok
ResOk(res) == res.status \in 200..299

\* json.result?.content?.[0]?.text
ContentText(json) ==
    CASE json.text.kind = "absent" -> Undefined
      [] json.text.kind = "empty" -> ""
      [] OTHER -> "text"

\* err instanceof Error ? err.message : String(err)
ErrMessage(e) == e.message

\* String(err)
String(e) == <<e.name, ": ">> \o e.message

\* data.f where data may be null
Read(data, f) ==
    IF IsJsonNull(data)
    THEN Throw("TypeError", <<"Cannot read properties of null">>)
    ELSE Return(Get(data, f))

\* ---------------------------------------------------------------- index.ts

BROWSER_USE_API == "https://api.browser-use.com/mcp"

\* The outbound request of one fetch of the provider
Request(name, arguments) ==
    [url |-> BROWSER_USE_API, key |-> API_KEY, method |-> "tools/call",
     name |-> name, arguments |-> arguments]

\* index.ts:18-39 (mutant: the error payload is looked at before res.ok)
callBrowserUseAPI_ErrorFirst(res) ==
    IF res.kind = "network" THEN Throw("TypeError", <<"fetch failed">>)
    ELSE LET j == ResJson(res) IN
        IF j.threw THEN j
        ELSE IF Truthy(j.value.error) THEN Throw("Error", <<j.value.error>>)
        ELSE IF ~ResOk(res)
        THEN Throw("Error", <<"API request failed: ", ToString(res.status)>>)
        ELSE IF ~Truthy(ContentText(j.value))
        THEN Throw("Error", <<"Empty response from API">>)
        ELSE JSONparse(j.value.text)

\* index.ts:18-39, from the settled fetch on
callBrowserUseAPI(res) ==
    IF res.kind = "network" THEN Throw("TypeError", <<"fetch failed">>)
    ELSE IF ~ResOk(res)
    THEN Throw("Error", <<"API request failed: ", ToString(res.status)>>)
    ELSE LET j == ResJson(res) IN
        IF j.threw THEN j
        ELSE IF Truthy(j.value.error) THEN Throw("Error", <<j.value.error>>)
        ELSE IF ~Truthy(ContentText(j.value))
        THEN Throw("Error", <<"Empty response from API">>)
        ELSE JSONparse(j.value.text)

\* mcp-use's result helpers
error(m) == [kind |-> "error", message |-> m]
widget(p, out) == [kind |-> "widget", props |-> p, output |-> out]
object(v) == [kind |-> "object", value |-> v]

DefaultModel == "browser-use-2.0"
DefaultMaxSteps == "20"

\* index.ts:47-54, the zod schema's defaults
ParseArgs(input) ==
    [task |-> input.task,
     model |-> IF input.model = Undefined THEN DefaultModel ELSE input.model,
     max_steps |-> IF input.max_steps = Undefined THEN DefaultMaxSteps ELSE input.max_steps]

\* index.ts:73-79, the props of the widget result (mutant: the model is hard-coded)
WidgetProps_DefaultModel(args, value) ==
    [taskId |-> Get(value, "task_id"),
     sessionId |-> Get(value, "session_id"),
     liveUrl |-> Get(value, "live_url"),
     task |-> args.task,
     model |-> DefaultModel]

\* index.ts:73-79, the props of the widget result
WidgetProps(args, value) ==
    [taskId |-> Get(value, "task_id"),
     sessionId |-> Get(value, "session_id"),
     liveUrl |-> Get(value, "live_url"),
     task |-> args.task,
     model |-> Coalesce(args.model, DefaultModel)]

\* index.ts:66-86, the try block of run_browser_task
StartTask(args, res) ==
    LET r == callBrowserUseAPI(res)
        fail(e) == error(<<"Failed to start browser task: ">> \o ErrMessage(e))
    IN [requests |-> <<Request("browser_task", args)>>,
        result |->
            IF r.threw THEN fail(r)
            ELSE IF Read(r.value, "task_id").threw THEN fail(Read(r.value, "task_id"))
            ELSE widget(
                WidgetProps(args, r.value),
                <<"Browser task started - watching live in the widget. Task ID: ",
                  Get(r.value, "task_id")>>)]

\* index.ts:61-87 (mutant: the credential is not checked)
run_browser_task_NoKeyCheck(args, res) == StartTask(args, res)

\* index.ts:61-87
run_browser_task(args, res) ==
    IF API_KEY = ""
    THEN [requests |-> <<>>,
          result |-> error(<<"BROWSER_USE_API_KEY", " environment variable is not set">>)]
    ELSE StartTask(args, res)

\* index.ts:108-113, the snapshot of get_task_result
ToolSnapshot(status) ==
    [isSuccess |-> Get(status, "is_success"),
     taskOutput |-> Get(status, "task_output"),
     totalSteps |-> Coalesce(Get(status, "total_steps"), "0"),
     done |-> Get(status, "is_success") # Null]

\* index.ts:101-117 (mutant: the steps of a task add up over the calls for it)
get_task_result_RunningTotal(task_id, res) ==
    IF API_KEY = ""
    THEN [requests |-> <<>>, result |-> error(<<"BROWSER_USE_API_KEY", " not set">>)]
    ELSE LET r == callBrowserUseAPI(res)
             fail(e) == error(<<"Failed to get task result: ">> \o ErrMessage(e))
             before == IF /\ last.op = "get_task_result"
                          /\ last.input.task_id = task_id
                          /\ last.result.kind = "object"
                       THEN last.result.value.totalSteps ELSE ""
         IN [requests |-> <<Request("monitor_task", [task_id |-> task_id])>>,
             result |->
                IF r.threw THEN fail(r)
                ELSE IF Read(r.value, "is_success").threw
                THEN fail(Read(r.value, "is_success"))
                ELSE object([ToolSnapshot(r.value) EXCEPT !.totalSteps = before \o @])]

\* index.ts:101-117
get_task_result(task_id, res) ==
    IF API_KEY = ""
    THEN [requests |-> <<>>, result |-> error(<<"BROWSER_USE_API_KEY", " not set">>)]
    ELSE LET r == callBrowserUseAPI(res)
             fail(e) == error(<<"Failed to get task result: ">> \o ErrMessage(e))
         IN [requests |-> <<Request("monitor_task", [task_id |-> task_id])>>,
             result |->
                IF r.threw THEN fail(r)
                ELSE IF Read(r.value, "is_success").threw
                THEN fail(Read(r.value, "is_success"))
                ELSE object(ToolSnapshot(r.value))]

\* c.json(body, status)
json(body, status) == [kind |-> "response", status |-> status, body |-> body]

\* index.ts:138-139, the body of the try block after the fetch settled
EndpointData(res) ==
    IF res.kind = "network" THEN Throw("TypeError", <<"fetch failed">>)
    ELSE LET j == ResJson(res) IN
        IF j.threw THEN j
        ELSE IF Nullish(ContentText(j.value))
        THEN Return(EmptyObject)          \* JSON.parse("{}")
        ELSE JSONparse(j.value.text)

\* index.ts:140-145 (mutant: done tests only for undefined)
EndpointSnapshot_NullIsDone(data) ==
    [done |-> Get(data, "is_success") # Undefined,
     isSuccess |-> Coalesce(Get(data, "is_success"), Null),
     taskOutput |-> Coalesce(Get(data, "task_output"), Null),
     totalSteps |-> Coalesce(Get(data, "total_steps"), "0")]

\* index.ts:140-145 (mutant: done only when the task succeeded)
EndpointSnapshot_DoneIsSuccess(data) ==
    [done |-> Get(data, "is_success") = JTrue,
     isSuccess |-> Coalesce(Get(data, "is_success"), Null),
     taskOutput |-> Coalesce(Get(data, "task_output"), Null),
     totalSteps |-> Coalesce(Get(data, "total_steps"), "0")]

\* index.ts:140-145, the snapshot of the route
EndpointSnapshot(data) ==
    [done |-> Get(data, "is_success") # Null /\ Get(data, "is_success") # Undefined,
     isSuccess |-> Coalesce(Get(data, "is_success"), Null),
     taskOutput |-> Coalesce(Get(data, "task_output"), Null),
     totalSteps |-> Coalesce(Get(data, "total_steps"), "0")]

\* index.ts:122-149 (mutant: the response is parsed outside the try block)
StatusEndpoint_ParseOutsideTry(taskId, res) ==
    LET d == EndpointData(res)
        caught(e) == json([error |-> String(e)], 500)
    IN [requests |-> <<Request("monitor_task", [task_id |-> taskId])>>,
        result |->
            IF d.threw
            THEN IF res.kind = "network" THEN caught(d)
                 ELSE [kind |-> "unhandled", thrown |-> String(d)]
            ELSE IF Read(d.value, "is_success").threw
            THEN caught(Read(d.value, "is_success"))
            ELSE json(EndpointSnapshot(d.value), 200)]

\* index.ts:122-149 (mutant: the steps of a task add up over the calls for it)
StatusEndpoint_RunningTotal(taskId, res) ==
    LET d == EndpointData(res)
        caught(e) == json([error |-> String(e)], 500)
        before == IF /\ last.op = "GET /api/task"
                     /\ last.input.taskId = taskId
                     /\ last.result.status = 200
                  THEN last.result.body.totalSteps ELSE ""
    IN [requests |-> <<Request("monitor_task", [task_id |-> taskId])>>,
        result |->
            IF d.threw THEN caught(d)
            ELSE IF Read(d.value, "is_success").threw
            THEN caught(Read(d.value, "is_success"))
            ELSE json([EndpointSnapshot(d.value) EXCEPT !.totalSteps = before \o @], 200)]

\* index.ts:122-149
StatusEndpoint(taskId, res) ==
    LET d == EndpointData(res)
        caught(e) == json([error |-> String(e)], 500)
    IN [requests |-> <<Request("monitor_task", [task_id |-> taskId])>>,
        result |->
            IF d.threw THEN caught(d)
            ELSE IF Read(d.value, "is_success").threw
            THEN caught(Read(d.value, "is_success"))
            ELSE json(EndpointSnapshot(d.value), 200)]

\* ---------------------------------------------------------------- the server's operations

ToolInputs == [task : Tasks, model : AbsentOr(Models), max_steps : MaxStepsInputs]

\* The provider answered the request with a parsed object (a status, a start result)
DeliversObject(res) ==
    /\ res.kind = "http"
    /\ ResOk(res)
    /\ res.body.kind = "json"
    /\ res.body.error = Undefined
    /\ res.body.text.kind = "object"

\* The object the provider delivered
Delivered(res) == res.body.text.obj

\* No call is remembered
NoneKept == [op |-> "none"]

\* The invocation i as it is remembered; later: another call has completed since
Remember(i) ==
    [op |-> i.op, input |-> i.input, response |-> i.response,
     requests |-> i.requests, result |-> i.result, later |-> FALSE]

Later(k) == IF k = NoneKept THEN k ELSE [k EXCEPT !.later = TRUE]

Invocation(op, input, res, out) ==
    [op |-> op, input |-> input,
     response |-> IF out.requests = <<>> THEN NoResponse ELSE res,
     requests |-> out.requests, result |-> out.result]

\* A call of the tool run_browser_task, index.ts:43-88
RunBrowserTask ==
    /\ \E input \in ToolInputs, res \in Responses(StartObjects) :
          last' = Invocation("run_browser_task", input, res,
                             run_browser_task(ParseArgs(input), res))
    /\ kept' = Later(kept)
    /\ UNCHANGED <<API_KEY, provider, widgetVars>>

\* A call of the tool get_task_result, index.ts:93-118
GetTaskResult ==
    /\ \E task_id \in TaskIds, res \in Responses(StatusObjects) :
          last' = Invocation("get_task_result", [task_id |-> task_id], res,
                             get_task_result(task_id, res))
    /\ kept' = Later(kept)
    /\ UNCHANGED <<API_KEY, provider, widgetVars>>

\* A request GET /api/task/:taskId, index.ts:122-149
GetApiTask ==
    /\ \E taskId \in TaskIds, res \in Responses(StatusObjects) :
          last' = Invocation("GET /api/task", [taskId |-> taskId], res,
                             StatusEndpoint(taskId, res))
    /\ kept' = Later(kept)
    /\ UNCHANGED <<API_KEY, provider, widgetVars>>


\* The provider's answers for a completed task: a status with a boolean is_success
CompletedResponses ==
    {r \in Responses(StatusObjects) :
        /\ r.kind = "http"
        /\ ResOk(r)
        /\ r.body.kind = "json"
        /\ r.body.error = Undefined
        /\ r.body.text.kind = "object"
        /\ r.body.text.obj.is_success \in {JTrue, JFalse}}

\* The task of the remembered call; the calls around it are for any task
RememberedTask == "t1"

\* A request GET /api/task/:taskId for a completed task, index.ts:122-149; the
\* invocation is remembered to compare a later one with it
GetApiTaskCompleted ==
    /\ kept = NoneKept
    /\ \E res \in CompletedResponses :
          last' = Invocation("GET /api/task", [taskId |-> RememberedTask], res,
                             StatusEndpoint(RememberedTask, res))
    /\ kept' = Remember(last')
    /\ UNCHANGED <<API_KEY, provider, widgetVars>>

\* A call of get_task_result for a completed task, index.ts:93-118; the
\* invocation is remembered to compare a later one with it
GetTaskResultCompleted ==
    /\ kept = NoneKept
    /\ \E res \in CompletedResponses :
          last' = Invocation("get_task_result", [task_id |-> RememberedTask], res,
                             get_task_result(RememberedTask, res))
    /\ kept' = Remember(last')
    /\ UNCHANGED <<API_KEY, provider, widgetVars>>

\* ---------------------------------------------------------------- browser-live-view.tsx

NullResult == [isNull |-> TRUE]
NoProps == [pending |-> TRUE]

\* The URL of the status route for a task
StatusUrl(taskId) == "/api/task/" \o taskId

\* Whether a URL a widget fetches is served by the route /api/task/:taskId
RoutesToEndpoint(url) == url \in {StatusUrl(t) : t \in TaskIds}

\* c.req.param("taskId") of a request the route matched
RouteParam(url) == CHOOSE t \in TaskIds : StatusUrl(t) = url

\* props.f in the widget: undefined when the tool result carries no such key
Prop(p, f) == Get(p, f)

\* A response body that is not JSON
NotJson == [notJson |-> TRUE]

\* Failures between the widget and the server: fetch rejects, a gateway answers
\* with an error status, or the answer is not JSON
TransportOutcomes ==
    {[kind |-> "network"],
     [kind |-> "response", status |-> 502, body |-> NotJson],
     [kind |-> "response", status |-> 200, body |-> NotJson]}

\* browser-live-view.tsx:44-62 (mutant: a done snapshot does not stop the loop)
poll_KeepsPolling(res) ==
    IF res.kind = "network"
    THEN [set |-> FALSE, stop |-> FALSE]
    ELSE IF ~ResOk(res)
    THEN [set |-> TRUE,
          result |-> [done |-> TRUE, isSuccess |-> JFalse, totalSteps |-> "0",
                      taskOutput |-> Null,
                      error |-> <<"Status check failed (", ToString(res.status), ")">>],
          stop |-> TRUE]
    ELSE IF res.body = NotJson
    THEN [set |-> FALSE, stop |-> FALSE]
    ELSE [set |-> TRUE, result |-> res.body, stop |-> FALSE]

\* browser-live-view.tsx:44-62, poll() from the settled fetch on
poll(res) ==
    IF res.kind = "network"
    THEN [set |-> FALSE, stop |-> FALSE]
    ELSE IF ~ResOk(res)
    THEN [set |-> TRUE,
          result |-> [done |-> TRUE, isSuccess |-> JFalse, totalSteps |-> "0",
                      taskOutput |-> Null,
                      error |-> <<"Status check failed (", ToString(res.status), ")">>],
          stop |-> TRUE]
    ELSE IF res.body = NotJson
    THEN [set |-> FALSE, stop |-> FALSE]
    ELSE [set |-> TRUE, result |-> res.body, stop |-> res.body.done]

\* Number of poll() calls the model follows
MaxPolls == 2

\* Runs of whitespace at either end of a text
Whitespace == {"", " ", "  "}

\* The texts that neither start nor end with whitespace
Trimmed == {"", "Top post: X"}

\* String.prototype.trim, browser-live-view.tsx:83
trim(s) == CHOOSE t \in Trimmed : \E a, b \in Whitespace : s = a \o t \o b

CompletedNoOutput ==
    <<"Task completed successfully, but Browser Use did not return a final text output.">>
FailedNoOutput == <<"Task failed before a final output was returned.">>

\* result.error || fallback, browser-live-view.tsx:87
ErrorOr(r, fallback) ==
    IF "error" \in DOMAIN r /\ r.error # <<>> THEN r.error ELSE fallback

\* result?.taskOutput?.trim(), browser-live-view.tsx:83; undefined as ""
TrimmedOutput(r) ==
    IF r = NullResult \/ Nullish(r.taskOutput) THEN "" ELSE trim(r.taskOutput)

\* browser-live-view.tsx:82-88 (mutant: no fixed message for a failure without error text)
finalMessage_NoFailedFallback(r) ==
    IF TrimmedOutput(r) # "" THEN <<TrimmedOutput(r)>>
    ELSE IF r # NullResult /\ r.done
    THEN (IF Truthy(r.isSuccess) THEN CompletedNoOutput ELSE ErrorOr(r, <<>>))
    ELSE <<>>

\* browser-live-view.tsx:82-88; a message is a sequence of text pieces, and
\* null is the empty sequence
finalMessage(r) ==
    IF TrimmedOutput(r) # "" THEN <<TrimmedOutput(r)>>
    ELSE IF r # NullResult /\ r.done
    THEN (IF Truthy(r.isSuccess) THEN CompletedNoOutput ELSE ErrorOr(r, FailedNoOutput))
    ELSE <<>>

\* browser-live-view.tsx:147-154, the result banner
resultBanner(r) ==
    IF r # NullResult /\ r.done /\ finalMessage(r) # <<>>
    THEN [shown |-> TRUE,
          kicker |-> IF Truthy(r.isSuccess) THEN "RESULT" ELSE "ERROR",
          text |-> finalMessage(r)]
    ELSE [shown |-> FALSE]

\* The tool call whose result the widget renders
RenderedInput == [task |-> "Go to example.com", model |-> Undefined, max_steps |-> Undefined]

\* The props a widget result of run_browser_task carries
ToolProps ==
    {run_browser_task(ParseArgs(RenderedInput), res).result.props :
        res \in {r \in Responses(StartObjects) :
                    run_browser_task(ParseArgs(RenderedInput), r).result.kind = "widget"}}

\* Props that satisfy propsSchema (browser-live-view.tsx:5-12) for a started task
SchemaProps ==
    {[taskId |-> t, sessionId |-> "s1", liveUrl |-> "https://live/t1",
      taskStatusApiUrl |-> StatusUrl(t), task |-> RenderedInput.task,
      model |-> DefaultModel] : t \in TaskIds}

Sent == [stage |-> "sent"]
Responded(res) == [stage |-> "responded", response |-> res]

\* A settled fetch whose JSON body carries a non-null isSuccess
SawResolved(res) ==
    /\ res.kind = "response"
    /\ ResOk(res)
    /\ res.body # NotJson
    /\ res.body.isSuccess # Null

\* A settled fetch whose response is not OK
SawNotOk(res) == res.kind = "response" /\ ~ResOk(res)

\* browser-live-view.tsx:40-65: the tool result arrives and the effect runs
PropsArrive ==
    /\ isPending
    /\ \E p \in ToolProps \cup SchemaProps : props' = p
    /\ isPending' = FALSE
    /\ stopped' = FALSE
    /\ polls' = polls (+) SetToBag({Sent})
    /\ started' = started + 1
    /\ interval' = "set"
    /\ UNCHANGED <<serverVars, provider, result, observed>>

\* browser-live-view.tsx:65, the interval's callback
Tick ==
    /\ interval = "set"
    /\ ~stopped
    /\ started < MaxPolls
    /\ polls' = polls (+) SetToBag({Sent})
    /\ started' = started + 1
    /\ UNCHANGED <<serverVars, provider, isPending, props, result, stopped, interval, observed>>

\* What JSON.parse of the content text can yield while a widget polls: the
\* final text may come with surrounding whitespace, or be blank
PolledObjects ==
    [is_success : {JTrue, JFalse, Null, Undefined},
     task_output : {"Top post: X", " Top post: X ", " ", Null, Undefined},
     total_steps : {"7", Null, Undefined}]

\* index.ts:122-149 serving the GET of a poll
ServePoll ==
    /\ BagIn(Sent, polls)
    /\ RoutesToEndpoint(Prop(props, "taskStatusApiUrl"))
    /\ \E res \in Responses(PolledObjects) :
          polls' = (polls (-) SetToBag({Sent})) (+) SetToBag({Responded(
                      StatusEndpoint(RouteParam(Prop(props, "taskStatusApiUrl")), res).result)})
    /\ UNCHANGED <<serverVars, provider, isPending, props, result, stopped, interval, started, observed>>

\* The fetch of a poll fails on the way, or is answered by something else
TransportFailure ==
    /\ BagIn(Sent, polls)
    /\ \E res \in TransportOutcomes :
          polls' = (polls (-) SetToBag({Sent})) (+) SetToBag({Responded(res)})
    /\ UNCHANGED <<serverVars, provider, isPending, props, result, stopped, interval, started, observed>>

\* browser-live-view.tsx:46-61, a poll's fetch settles
PollSettles ==
    \E p \in BagToSet(polls) :
        /\ p.stage = "responded"
        /\ LET out == poll(p.response) IN
            /\ result' = IF out.set /\ interval = "set" THEN out.result ELSE result
            /\ stopped' = (stopped \/ out.stop)
        /\ polls' = polls (-) SetToBag({p})
        /\ observed' = [resolved |-> observed.resolved \/ SawResolved(p.response),
                        notOk |-> observed.notOk \/ SawNotOk(p.response)]
        /\ UNCHANGED <<serverVars, provider, isPending, props, interval, started>>

\* browser-live-view.tsx:66, the effect's cleanup when the widget unmounts;
\* React drops the state updates of an unmounted component
Unmount ==
    /\ interval = "set"
    /\ stopped' = TRUE
    /\ interval' = "cleared"
    /\ UNCHANGED <<serverVars, provider, isPending, props, result, polls, started, observed>>

\* The task ends at the provider: is_success becomes true or false and stays so
ProviderResolves ==
    /\ provider = Null
    /\ provider' \in {JTrue, JFalse}
    /\ UNCHANGED <<serverVars, widgetVars>>

\* The provider's answers to monitor_task that report its status of the moment
LiveResponses ==
    {r \in Responses(StatusObjects) :
        DeliversObject(r) /\ Delivered(r).is_success = provider}

\* browser-live-view.tsx:40-65 for the props of a started task with its status URL
LiveProps ==
    /\ PropsArrive
    /\ RoutesToEndpoint(Prop(props', "taskStatusApiUrl"))

\* browser-live-view.tsx:65, the interval's callback; the last poll the model
\* follows is left for the time after the task has ended
LiveTick ==
    /\ Tick
    /\ started + 1 < MaxPolls \/ provider # Null

\* index.ts:122-149 serving the GET of a poll with the provider's status of the moment
ServeLive ==
    /\ BagIn(Sent, polls)
    /\ RoutesToEndpoint(Prop(props, "taskStatusApiUrl"))
    /\ \E res \in LiveResponses :
          polls' = (polls (-) SetToBag({Sent})) (+) SetToBag({Responded(
                      StatusEndpoint(RouteParam(Prop(props, "taskStatusApiUrl")), res).result)})
    /\ UNCHANGED <<serverVars, provider, isPending, props, result, stopped, interval, started, observed>>

\* ---------------------------------------------------------------- specifications

Init ==
    /\ API_KEY \in Keys
    /\ last = [op |-> "none"]
    /\ isPending = TRUE
    /\ props = NoProps
    /\ result = NullResult
    /\ stopped = FALSE
    /\ interval = "unset"
    /\ polls = EmptyBag
    /\ started = 0
    /\ observed = [resolved |-> FALSE, notOk |-> FALSE]
    /\ kept = NoneKept
    /\ provider = Null

\* The server: its two tools and its route, called by the host and by HTTP clients
Next == RunBrowserTask \/ GetTaskResult \/ GetApiTask

Spec == Init /\ [][Next]_vars

\* The status calls of the server, any of them between a remembered call for a
\* completed task and a later call with the same input and provider response
RepeatNext ==
    GetApiTaskCompleted \/ GetTaskResultCompleted \/ GetTaskResult \/ GetApiTask

RepeatSpec == Init /\ [][RepeatNext]_vars

\* The widget polling the server
WidgetNext ==
    PropsArrive \/ Tick \/ ServePoll \/ TransportFailure \/ PollSettles \/ Unmount

WidgetSpec == Init /\ [][WidgetNext]_vars

\* The widget of a started task while the provider runs the task to its end:
\* every poll is answered with the provider's status of the moment, and the
\* timer, the route and the fetches keep going
LiveNext == LiveProps \/ ProviderResolves \/ LiveTick \/ ServeLive \/ PollSettles

LiveSpec ==
    /\ Init
    /\ [][LiveNext]_vars
    /\ WF_vars(LiveProps)
    /\ WF_vars(ProviderResolves)
    /\ WF_vars(LiveTick)
    /\ WF_vars(ServeLive)
    /\ WF_vars(PollSettles)

\* ---------------------------------------------------------------- claims

StatusOps == {"get_task_result", "GET /api/task"}

\* The invocation returned a snapshot rather than a failure
HasSnapshot(inv) ==
    \/ inv.op = "get_task_result" /\ inv.result.kind = "object"
    \/ inv.op = "GET /api/task" /\ inv.result.kind = "response" /\ inv.result.status = 200

Snapshot(inv) ==
    IF inv.op = "get_task_result" THEN inv.result.value ELSE inv.result.body

\* C1: with the credential absent, run_browser_task returns a failure whose message
\* names BROWSER_USE_API_KEY and issues no provider request, whatever its input.
C1_MissingCredentialFails ==
    (API_KEY = "" /\ last.op = "run_browser_task")
        => /\ last.result.kind = "error"
           /\ "BROWSER_USE_API_KEY" \in Range(last.result.message)
           /\ last.requests = <<>>

C1_Witness ==
    /\ API_KEY = ""
    /\ last.op = "run_browser_task"
    /\ last.input.model = "gpt-4.1"
    /\ last.input.max_steps = "5"
    /\ last.result.kind = "error"

\* C2: a provider status whose is_success is null gives done = false and
\* isSuccess = null on both status paths, whatever task_output and total_steps are.
C2_NullIsPending ==
    (/\ last.op \in StatusOps
     /\ DeliversObject(last.response)
     /\ Delivered(last.response).is_success = Null)
        => /\ HasSnapshot(last)
           /\ Snapshot(last).done = FALSE
           /\ Snapshot(last).isSuccess = Null

C2_Witness ==
    /\ last.op = "GET /api/task"
    /\ DeliversObject(last.response)
    /\ Delivered(last.response) =
          [is_success |-> Null, task_output |-> "Top post: X", total_steps |-> "7"]
    /\ HasSnapshot(last)
    /\ Snapshot(last).done = FALSE

\* C3 (as claimed): on both status paths done is true exactly when the provider's
\* is_success is a boolean, isSuccess then being that boolean; a null or absent
\* is_success gives done = false and isSuccess = null.
C3_DoneIffBoolean ==
    (last.op \in StatusOps /\ DeliversObject(last.response))
        => LET raw == Delivered(last.response).is_success IN
           /\ HasSnapshot(last)
           /\ Snapshot(last).done = (raw \in {JTrue, JFalse})
           /\ raw \in {JTrue, JFalse} => Snapshot(last).isSuccess = raw
           /\ raw \in {Null, Undefined}
                 => Snapshot(last).done = FALSE /\ Snapshot(last).isSuccess = Null

\* The snapshot invariant of the data model
SnapshotOK(snap) ==
    /\ snap.isSuccess # Null => snap.done = TRUE
    /\ snap.done = FALSE => snap.isSuccess = Null

\* The 200 bodies among the answers to the polls in flight
PolledSnapshots ==
    {p.response.body : p \in {q \in BagToSet(polls) :
        /\ q.stage = "responded"
        /\ q.response.kind = "response"
        /\ q.response.status = 200
        /\ q.response.body # NotJson}}

\* C4: every snapshot get_task_result returns for any provider response, every
\* snapshot GET /api/task/:taskId answers a poll with, and the widget's result
\* state after any sequence of polls satisfy: isSuccess not null implies done,
\* and not done implies isSuccess null.
C4_SnapshotInvariant ==
    /\ \A s \in PolledSnapshots : SnapshotOK(s)
    /\ result # NullResult => SnapshotOK(result)
    /\ \A t \in TaskIds, res \in Responses(StatusObjects) :
          LET r == get_task_result(t, res).result IN
              r.kind = "object" => SnapshotOK(r.value)

C4_Witness ==
    /\ result # NullResult
    /\ result.done = FALSE
    /\ \E s \in PolledSnapshots : s.done /\ s.isSuccess = JFalse

\* C5 (as claimed): the polling loop never shows the task as done before some poll
\* iteration observed a non-null isSuccess, and starts no status query after the
\* first iteration that observed one.
C5_DoneOnlyAfterResolved ==
    /\ [](result # NullResult /\ result.done => observed.resolved)
    /\ [][observed.resolved => started' = started]_vars

\* C5 (amended): the polling loop never shows the task as done before some poll
\* iteration observed a non-null isSuccess or a response that is not OK, and
\* starts no status query after the first such iteration.
C5_DoneOnlyAfterResolvedOrNotOk ==
    /\ [](result # NullResult /\ result.done => observed.resolved \/ observed.notOk)
    /\ [][observed.resolved \/ observed.notOk => started' = started]_vars

C5_Witness ==
    /\ observed.resolved
    /\ ~observed.notOk
    /\ result # NullResult
    /\ result.done
    /\ stopped
    /\ interval = "set"
    /\ started < MaxPolls

\* A provider call that failed: no 2xx response, an error payload, or a network
\* or parse failure
ProviderCallFailed(res) ==
    \/ res.kind = "network"
    \/ ~ResOk(res)
    \/ res.body.kind = "malformed"
    \/ Truthy(res.body.error)
    \/ res.body.text.kind = "invalid"

\* C6 (as claimed): GET /api/task/:taskId answers 500 {error} whenever its provider
\* call failed, and 200 with a snapshot only when the provider call succeeded.
C6_FailureIs500 ==
    last.op = "GET /api/task"
        => /\ ProviderCallFailed(last.response)
                => last.result.status = 500 /\ DOMAIN last.result.body = {"error"}
           /\ last.result.status = 200 => ~ProviderCallFailed(last.response)

\* C7: whatever the provider does, GET /api/task/:taskId ends with a structured
\* response, a 200 snapshot or a 500 {error}; no failure leaves the handler.
C7_AlwaysStructured ==
    last.op = "GET /api/task"
        => /\ last.result.kind = "response"
           /\ \/ /\ last.result.status = 200
                 /\ DOMAIN last.result.body = {"done", "isSuccess", "taskOutput", "totalSteps"}
              \/ /\ last.result.status = 500
                 /\ DOMAIN last.result.body = {"error"}

C7_Witness ==
    /\ last.op = "GET /api/task"
    /\ last.response.kind = "http"
    /\ last.response.body.kind = "malformed"
    /\ last.result.kind = "response"
    /\ last.result.status = 500

\* C8: with the credential set and a start response {task_id, session_id,
\* live_url}, run_browser_task returns a UI payload with these three values
\* unchanged, the input task, and the input model ("browser-use-2.0" by default).
C8_StartPayload ==
    (/\ last.op = "run_browser_task"
     /\ API_KEY # ""
     /\ DeliversObject(last.response)
     /\ Undefined \notin {Delivered(last.response).task_id,
                          Delivered(last.response).session_id,
                          Delivered(last.response).live_url})
        => /\ last.result.kind = "widget"
           /\ last.result.props.taskId = Delivered(last.response).task_id
           /\ last.result.props.sessionId = Delivered(last.response).session_id
           /\ last.result.props.liveUrl = Delivered(last.response).live_url
           /\ last.result.props.task = last.input.task
           /\ last.result.props.model =
                 IF last.input.model = Undefined THEN "browser-use-2.0"
                 ELSE last.input.model

C8_Witness ==
    /\ last.op = "run_browser_task"
    /\ last.input = [task |-> "Go to example.com", model |-> Undefined, max_steps |-> Undefined]
    /\ last.result.kind = "widget"
    /\ last.result.props =
          [taskId |-> "t1", sessionId |-> "s1", liveUrl |-> "https://live/t1",
           task |-> "Go to example.com", model |-> "browser-use-2.0"]

\* C9 (as claimed): every successful run_browser_task result carries all props the
\* widget consumes, taskStatusApiUrl among them, so that the widget polls the
\* status route of the task just started.
C9_PropsComplete ==
    (last.op = "run_browser_task" /\ last.result.kind = "widget")
        => /\ {"taskId", "sessionId", "liveUrl", "taskStatusApiUrl", "task", "model"}
                 \subseteq DOMAIN last.result.props
           /\ Prop(last.result.props, "taskStatusApiUrl")
                 = StatusUrl(last.result.props.taskId)

\* Both status paths report the same outcome
SameOutcome(tool, http) ==
    IF tool.kind = "error"
    THEN http.status = 500
    ELSE http.status = 200 /\ http.body = tool.value

\* C10 (as claimed): for the same taskId and the same provider response,
\* get_task_result and GET /api/task/:taskId both fail or both return the same
\* {done, isSuccess, taskOutput, totalSteps}.
C10_PathsAgree ==
    /\ (last.op = "get_task_result" /\ last.requests # <<>>)
          => SameOutcome(last.result,
                         StatusEndpoint(last.input.task_id, last.response).result)
    /\ (last.op = "GET /api/task" /\ API_KEY # "")
          => SameOutcome(get_task_result(last.input.taskId, last.response).result,
                         last.result)

OutputPresent(r) == ~Nullish(r.taskOutput)

\* C12 as stated: when the snapshot is done the banner shows a non-empty summary:
\* the output text verbatim if present; else the fixed completed message if the
\* task succeeded; else the error text if present, else the fixed failed message.
C12_SummaryVerbatim ==
    (result # NullResult /\ result.done) =>
        /\ resultBanner(result).shown
        /\ resultBanner(result).text # <<"">>
        /\ resultBanner(result).text =
              IF OutputPresent(result) THEN <<result.taskOutput>>
              ELSE IF result.isSuccess = JTrue THEN CompletedNoOutput
              ELSE ErrorOr(result, FailedNoOutput)

\* C12 as the code has it: the output text counts once its surrounding
\* whitespace is removed, and a blank output is treated as absent.
C12_SummaryTrimmed ==
    (result # NullResult /\ result.done) =>
        /\ resultBanner(result).shown
        /\ resultBanner(result).text \notin {<<>>, <<"">>}
        /\ resultBanner(result).text =
              IF OutputPresent(result) /\ trim(result.taskOutput) # ""
              THEN <<trim(result.taskOutput)>>
              ELSE IF result.isSuccess = JTrue THEN CompletedNoOutput
              ELSE IF "error" \in DOMAIN result THEN result.error
              ELSE FailedNoOutput

C12_Witness ==
    /\ result # NullResult
    /\ result.done
    /\ result.isSuccess = JFalse
    /\ result.taskOutput = " "
    /\ resultBanner(result) =
          [shown |-> TRUE, kicker |-> "ERROR", text |-> FailedNoOutput]

\* C13 (as claimed): in every snapshot get_task_result or GET /api/task/:taskId
\* returns, taskOutput is non-null only if done is true, and a snapshot with
\* done = false has taskOutput = null.
C13_OutputOnlyWhenDone ==
    (last.op \in StatusOps /\ HasSnapshot(last))
        => /\ Snapshot(last).taskOutput # Null => Snapshot(last).done = TRUE
           /\ Snapshot(last).done = FALSE => Snapshot(last).taskOutput = Null

\* The two tools that go through callBrowserUseAPI
ToolOps == {"run_browser_task", "get_task_result"}

\* The tool failed with a message that has the piece m
FailsWith(inv, m) == inv.result.kind = "error" /\ m \in Range(inv.result.message)

\* C14: with the credential set, run_browser_task and get_task_result fail, and
\* never return a success payload, when the provider's response is non-2xx (the
\* message has the HTTP status, and not the error payload's message), when a 2xx
\* response carries an error payload (the message has the provider's message),
\* and when a 2xx response without error has no content text (the message is the
\* empty-response text).
C14_ProviderFailureSurfaced ==
    (last.op \in ToolOps /\ API_KEY # "" /\ last.response.kind = "http")
        => /\ ~ResOk(last.response)
                => /\ FailsWith(last, "API request failed: ")
                   /\ FailsWith(last, ToString(last.response.status))
                   /\ ~FailsWith(last, "provider error")
           /\ (/\ ResOk(last.response)
               /\ last.response.body.kind = "json"
               /\ last.response.body.error # Undefined)
                => FailsWith(last, last.response.body.error)
           /\ (/\ ResOk(last.response)
               /\ last.response.body.kind = "json"
               /\ last.response.body.error = Undefined
               /\ last.response.body.text.kind \in {"absent", "empty"})
                => FailsWith(last, "Empty response from API")

C14_Witness ==
    /\ API_KEY # ""
    /\ last.op = "get_task_result"
    /\ last.response.kind = "http"
    /\ last.response.status = 500
    /\ last.response.body.kind = "json"
    /\ last.response.body.error = "provider error"
    /\ last.result =
          error(<<"Failed to get task result: ", "API request failed: ", "500">>)

\* The invocation ended with a failure result
FailureResult(inv) ==
    IF inv.op = "GET /api/task"
    THEN inv.result.status = 500
    ELSE inv.result.kind = "error"

\* C15 (as claimed): an invocation of run_browser_task, get_task_result or
\* GET /api/task/:taskId issues at most one provider request, and one whose
\* request failed ends with a failure result.
C15_NoRetryFailureSurfaced ==
    last.op # "none"
        => /\ Len(last.requests) <= 1
           /\ (last.requests # <<>> /\ ProviderCallFailed(last.response))
                => FailureResult(last)

\* C19 (as claimed): run_browser_task returns the widget payload only when the
\* provider's start response has task_id, session_id and live_url.
C19_HandleHasProviderIds ==
    (last.op = "run_browser_task" /\ last.result.kind = "widget")
        => /\ Delivered(last.response).task_id # Undefined
           /\ Delivered(last.response).session_id # Undefined
           /\ Delivered(last.response).live_url # Undefined
           /\ last.result.props.taskId # Undefined

\* C20 (as claimed): with the credential absent, no invocation of
\* run_browser_task, get_task_result or GET /api/task/:taskId issues a request
\* to the provider.
C20_NoRequestWithoutCredential ==
    (API_KEY = "" /\ last.op # "none") => last.requests = <<>>

\* The widget shows the task as done
ShowsDone == result # NullResult /\ result.done

\* C17 (as claimed): once the widget's result shows a done snapshot, no later
\* event changes it back to not-done or to a different outcome.
C17_ViewStable ==
    [][ShowsDone => /\ result' # NullResult
                    /\ result'.done
                    /\ result'.isSuccess = result.isSuccess]_vars

\* The widget holds a done snapshot with the provider's resolved value
Settled == provider # Null /\ ShowsDone /\ result.isSuccess = provider

\* C18 (as claimed): once the provider has resolved the task, with every status
\* request answered and the timer running, the widget eventually holds a done
\* snapshot with the provider's isSuccess and holds it forever.
C18_EventuallySettled == <>[]Settled

====
